---- MODULE Spec2Model ----
(***************************************************************************)
(* OG-scraper: one run of the social-image scraper, entered either through *)
(* the HTTP worker (src/worker/src/index.ts, GET /scrape) or through the   *)
(* command-line script (scrape-social-images.ts, src/unnamed/part_001).    *)
(*                                                                         *)
(* JavaScript is single-threaded: the code between two awaits runs         *)
(* atomically, so one action of the model is one such stretch of code,     *)
(* started by the event that resumes it (a request, a settled provider     *)
(* call, a settled image GET).  The provider, the image hosts and the      *)
(* filesystem are the environment: what they answer is drawn with \E.      *)
(***************************************************************************)
EXTENDS Integers, Sequences, FiniteSets, TLC

\* ------------------------------------------------------------------ bounds
\* The longest discovered URL sequence the provider returns.
MaxUrls == 3
\* The largest value of the `concurrency` parameter (scrapePages' default is
\* 10, the CLI passes 5; the wave loop is the same code for every value).
MaxConcurrency == 2
\* The longest `limit` query string.
MaxLimitLen == 3
\* The longest page title rendered by the HTML emitter.
MaxTitleLen == 3
\* The longest URL pathname handed to slugify.
MaxPathLen == 5
\* The most pages whose images are materialized.
MaxPages == 2

\* ------------------------------------------------------------------ values
\* A JavaScript `undefined` string-valued field.
Absent == "<undefined>"

\* `!s` of JavaScript for a string-or-undefined value.
Falsy(s) == s = Absent \/ s = ""

\* The page URLs the provider may discover (opaque; two, so that a discovered
\* sequence can hold duplicates).
Urls == {"https://ex.com/a", "https://ex.com/b"}

\* All sequences over S of length at most n.
SeqsUpTo(S, n) == UNION {[1..k -> S] : k \in 0..n}

\* The link lists the provider may answer a discovery with: every sequence of
\* at most MaxUrls URLs in which the occurrences of /a precede those of /b
\* (the run treats URLs as opaque, so which URL repeats where adds nothing).
LinkLists ==
    {l \in SeqsUpTo(Urls, MaxUrls) :
        \A j, k \in DOMAIN l :
            (j < k /\ l[j] = "https://ex.com/b") => l[k] = "https://ex.com/b"}

\* The metadata records the provider may return (title and description do not
\* influence any decision of the run and are left out).
Metadatas ==
    {[ogImage |-> Absent, twitterImage |-> Absent],
     [ogImage |-> "", twitterImage |-> ""],
     [ogImage |-> "https://ex.com/i.jpg", twitterImage |-> Absent],
     [ogImage |-> Absent, twitterImage |-> "https://ex.com/i.jpg"],
     [ogImage |-> "https://ex.com/i.jpg", twitterImage |-> "https://ex.com/i.jpg"]}

NoMetadata == [ogImage |-> Absent, twitterImage |-> Absent]

\* What one provider /scrape call can do: the call throws (transport error,
\* unparsable body, SDK error), or it answers with `success` and, possibly,
\* a metadata object.
ScrapeResponses ==
    {[kind |-> "throw", success |-> FALSE, hasMeta |-> FALSE, meta |-> NoMetadata],
     [kind |-> "json", success |-> FALSE, hasMeta |-> FALSE, meta |-> NoMetadata],
     [kind |-> "json", success |-> TRUE, hasMeta |-> FALSE, meta |-> NoMetadata]}
    \cup {[kind |-> "json", success |-> TRUE, hasMeta |-> TRUE, meta |-> m] :
            m \in Metadatas}

\* The SDK of the CLI throws on a provider failure: its documents carry no
\* `success` flag.
ScrapeDocuments == {r \in ScrapeResponses : r.kind = "throw" \/ r.success}

\* What one provider /map call can do.  hasLinks = FALSE is a body without a
\* `links` array.
MapResponses ==
    {[kind |-> "throw", success |-> FALSE, hasLinks |-> FALSE, links |-> <<>>],
     [kind |-> "json", success |-> FALSE, hasLinks |-> FALSE, links |-> <<>>],
     [kind |-> "json", success |-> FALSE, hasLinks |-> TRUE,
      links |-> <<"https://ex.com/a">>],
     [kind |-> "json", success |-> TRUE, hasLinks |-> FALSE, links |-> <<>>]}
    \cup {[kind |-> "json", success |-> TRUE, hasLinks |-> TRUE, links |-> l] :
            l \in LinkLists}

NoMapResponse == [kind |-> "none", success |-> FALSE, hasLinks |-> FALSE, links |-> <<>>]

\* The page URLs of the runs that materialize images: two that differ in the
\* query string only, and a third.
ImageUrls == {"https://ex.com/a", "https://ex.com/a?x=1", "https://ex.com/b"}
UrlRank(u) ==
    CASE u = "https://ex.com/a" -> 1 [] u = "https://ex.com/a?x=1" -> 2 [] OTHER -> 3
\* Their link lists: at most MaxPages URLs, in the order of UrlRank (which URL
\* comes first makes no difference to the downloads of a page).
ImageLinkLists ==
    {l \in SeqsUpTo(ImageUrls, MaxPages) :
        /\ l # <<>>
        /\ \A j, k \in DOMAIN l : j < k => UrlRank(l[j]) <= UrlRank(l[k])}
ImageMapResponses ==
    {[kind |-> "json", success |-> TRUE, hasLinks |-> TRUE, links |-> l] :
        l \in ImageLinkLists}
\* Their metadata: every way for a page to have an image.
ImageMetadatas ==
    {[ogImage |-> "https://ex.com/i.jpg", twitterImage |-> Absent],
     [ogImage |-> Absent, twitterImage |-> "https://ex.com/i.jpg"],
     [ogImage |-> "https://ex.com/i.jpg", twitterImage |-> "https://ex.com/i.jpg"],
     [ogImage |-> "https://ex.com/i.jpg", twitterImage |-> "https://ex.com/t.jpg"]}
ImageDocuments ==
    {[kind |-> "json", success |-> TRUE, hasMeta |-> TRUE, meta |-> m] : m \in ImageMetadatas}

\* A PageResult / PageMetadata.
PageOf(u, og, tw) == [url |-> u, ogImage |-> og, twitterImage |-> tw]

\* The state of one element of the discovered sequence in the fan-out:
\* not launched, in flight, or settled with `null` or with a page.
NoPage == PageOf("", Absent, Absent)
Idle == [st |-> "idle", page |-> NoPage]
Pending == [st |-> "pending", page |-> NoPage]
Null == [st |-> "null", page |-> NoPage]
Fulfilled(p) == [st |-> "page", page |-> p]

\* ------------------------------------------------------------- limit parsing
\* Strings that are parsed are sequences of one-character strings.
Chars == {"0", "1", "9", "-", "x", " "}
DigitVal == [c \in {"0", "1", "2", "3", "4", "5", "6", "7", "8", "9"} |->
               CASE c = "0" -> 0 [] c = "1" -> 1 [] c = "2" -> 2 [] c = "3" -> 3
                 [] c = "4" -> 4 [] c = "5" -> 5 [] c = "6" -> 6 [] c = "7" -> 7
                 [] c = "8" -> 8 [] c = "9" -> 9]
IsDigit(c) == c \in DOMAIN DigitVal

\* The `limit` query parameter: absent, or a string of at most MaxLimitLen
\* characters.
NoLimitParam == [present |-> FALSE, text |-> <<>>]
LimitParams ==
    {NoLimitParam} \cup {[present |-> TRUE, text |-> t] : t \in SeqsUpTo(Chars, MaxLimitLen)}

\* The two limit parameters the full runs are explored with.
SampleLimitParams == {NoLimitParam, [present |-> TRUE, text |-> <<"1", "9", "x">>]}

\* The length of the longest prefix of s made of digits.
RECURSIVE DigitPrefixLen(_)
DigitPrefixLen(s) ==
    IF s = <<>> \/ ~IsDigit(Head(s)) THEN 0 ELSE 1 + DigitPrefixLen(Tail(s))

\* The value of a sequence of digits read in base 10.
RECURSIVE DigitsValue(_)
DigitsValue(s) ==
    IF s = <<>> THEN 0
    ELSE 10 * DigitsValue(SubSeq(s, 1, Len(s) - 1)) + DigitVal[s[Len(s)]]

\* s without its leading white space.
RECURSIVE TrimStart(_)
TrimStart(s) == IF s # <<>> /\ Head(s) = " " THEN TrimStart(Tail(s)) ELSE s

\* parseInt(s, 10): leading white space is skipped, then an optional sign,
\* then the longest run of digits; NaN when there is no digit.  What follows
\* the digits is ignored.
ParseInt(s) ==
    LET t == TrimStart(s)
        signed == t # <<>> /\ Head(t) \in {"-", "+"}
        rest == IF signed THEN Tail(t) ELSE t
        n == DigitPrefixLen(rest)
        v == DigitsValue(SubSeq(rest, 1, n))
    IN  [nan |-> n = 0,
         val |-> IF signed /\ Head(t) = "-" THEN 0 - v ELSE v]

DefaultLimit == 50
MaxLimit == 100
CliLimit == 50

\* Mutant of CapLimit: the ceiling is forgotten.
CapLimitOff(l) == l

\* The ceiling applied to a parsed limit: `if (limit > 100) limit = 100`.
CapLimit(l) == IF l > MaxLimit THEN MaxLimit ELSE l

\* `parseInt(limitParam || "50", 10)`, then the two clamps of the handler.
ClampLimit(lp) ==
    LET text == IF ~lp.present \/ lp.text = <<>> THEN <<"5", "0">> ELSE lp.text
        p == ParseInt(text)
        l == IF p.nan \/ p.val < 1 THEN DefaultLimit ELSE p.val
    IN  CapLimit(l)

\* ------------------------------------------------------- request parameters
\* The `url` query parameter: absent, empty, unparsable, parsable.
UrlParams == {Absent, "", "not a url", "https://ex.com"}
\* `new URL(u)` does not throw.
ParsesAsUrl(u) == u \in {"https://ex.com"} \cup Urls
\* The provider credential: unset, empty or set.
Keys == {Absent, "", "fc-key"}

\* Mutant of NoApiKey: the worker does not test the credential.
NoApiKeyUntested(key) == FALSE

\* `if (!apiKey)` of the worker.
NoApiKey(key) == Falsy(key)
\* The site the CLI is run on (process.argv[2] or the default).
TargetUrl == "https://ex.com"

\* ---------------------------------------------------------------- extraction
\* Mutant of ScrapePage: a page is returned only when it has an ogImage.
ScrapePageOgOnly(u, r) ==
    IF r.kind = "throw" THEN Null
    ELSE IF ~r.success \/ ~r.hasMeta THEN Null
    ELSE IF Falsy(r.meta.ogImage) THEN Null
    ELSE Fulfilled(PageOf(u, r.meta.ogImage, r.meta.twitterImage))

\* scrapePage of the worker: the page of one URL, or null.
ScrapePage(u, r) ==
    IF r.kind = "throw" THEN Null
    ELSE IF ~r.success \/ ~r.hasMeta THEN Null
    ELSE IF Falsy(r.meta.ogImage) /\ Falsy(r.meta.twitterImage) THEN Null
    ELSE Fulfilled(PageOf(u, r.meta.ogImage, r.meta.twitterImage))

\* Mutant of ScrapeCallback: the image test is dropped.
ScrapeCallbackUnfiltered(u, r) ==
    IF r.kind = "throw" THEN Null
    ELSE LET meta == IF r.hasMeta THEN r.meta ELSE NoMetadata
         IN  Fulfilled(PageOf(u, meta.ogImage, meta.twitterImage))

\* The batch callback of extractSocialImages (CLI): `doc.metadata || {}`.
ScrapeCallback(u, r) ==
    IF r.kind = "throw" THEN Null
    ELSE LET meta == IF r.hasMeta THEN r.meta ELSE NoMetadata
         IN  IF ~Falsy(meta.ogImage) \/ ~Falsy(meta.twitterImage)
             THEN Fulfilled(PageOf(u, meta.ogImage, meta.twitterImage))
             ELSE Null

\* ------------------------------------------------------------------ fan-out
\* Mutant of Batch: the slice is one element too long.
BatchOneMore(us, i, c) == {k \in 1..Len(us) : i < k /\ k <= i + c + 1}

\* The indices (1-based) of `urls.slice(i, i + concurrency)`.
Batch(us, i, c) == {k \in 1..Len(us) : i < k /\ k <= i + c}

\* Mutant of NextIndex: the loop steps over one element.
NextIndexSkips(i, c) == i + c + 1

\* Mutant of NextIndex: the next batch starts on the last element of this one.
NextIndexOverlaps(i, c) == IF c > 1 THEN i + c - 1 ELSE i + c

\* The loop step `i += concurrency`.
NextIndex(i, c) == i + c

\* Mutant of Collect: the values of the batch are pushed last to first.
RECURSIVE CollectReversed(_, _)
CollectReversed(sl, batch) ==
    IF batch = {} THEN <<>>
    ELSE LET k == CHOOSE x \in batch : \A y \in batch : x >= y
         IN  (IF sl[k].st = "page" THEN <<sl[k].page>> ELSE <<>>)
             \o CollectReversed(sl, batch \ {k})

\* `for (const result of batchResults) if (fulfilled && value) results.push(value)`
\* over the slots of the batch, in batch order.
RECURSIVE Collect(_, _)
Collect(sl, batch) ==
    IF batch = {} THEN <<>>
    ELSE LET k == CHOOSE x \in batch : \A y \in batch : x <= y
         IN  (IF sl[k].st = "page" THEN <<sl[k].page>> ELSE <<>>)
             \o Collect(sl, batch \ {k})

\* `pages.filter((p) => p.ogImage || p.twitterImage)` of the worker.
RECURSIVE FilterWithImages(_)
FilterWithImages(ps) ==
    IF ps = <<>> THEN <<>>
    ELSE (IF ~Falsy(Head(ps).ogImage) \/ ~Falsy(Head(ps).twitterImage)
          THEN <<Head(ps)>> ELSE <<>>) \o FilterWithImages(Tail(ps))

\* ------------------------------------------------------------ HTTP responses
NoResponse ==
    [status |-> 0, error |-> "", pagesScanned |-> 0, pagesWithImages |-> 0, pages |-> <<>>]
\* Mutant of JsonError: the status argument is left out, so the response
\* goes out with the default status.
JsonErrorNoStatus(status, msg) ==
    [status |-> 200, error |-> msg, pagesScanned |-> 0, pagesWithImages |-> 0,
     pages |-> <<>>]

\* c.json({error}, status)
JsonError(status, msg) ==
    [status |-> status, error |-> msg, pagesScanned |-> 0, pagesWithImages |-> 0,
     pages |-> <<>>]
\* Mutant of JsonResult: pagesScanned counts the pages kept, not the URLs.
JsonResultCountsPages(us, ps) ==
    [status |-> 200, error |-> "", pagesScanned |-> Len(ps),
     pagesWithImages |-> Len(ps), pages |-> ps]

\* c.json(result): the ScrapeResult built from the discovered urls and the pages.
JsonResult(us, ps) ==
    LET withImages == FilterWithImages(ps)
    IN  [status |-> 200, error |-> "", pagesScanned |-> Len(us),
         pagesWithImages |-> Len(withImages), pages |-> withImages]

\* Mutant of MapFailed: only the success flag is tested.
MapFailedFlagOnly(m) == ~m.success

\* `!mapResult.success || !mapResult.links?.length` of the worker.
MapFailed(m) == ~m.success \/ ~m.hasLinks \/ Len(m.links) = 0
\* `!mapResult.links?.length` of the CLI.
MapEmpty(m) == ~m.hasLinks \/ Len(m.links) = 0

\* ------------------------------------------------------------- HTML emitter
\* Text is a sequence of characters. The characters a title is made of: the
\* four that escapeHtml rewrites and one that it leaves alone.
TitleChars == {"&", "<", ">", "\"", "t"}
Titles == SeqsUpTo(TitleChars, MaxTitleLen)

Amp == <<"&", "a", "m", "p", ";">>
Lt == <<"&", "l", "t", ";">>
Gt == <<"&", "g", "t", ";">>
Quot == <<"&", "q", "u", "o", "t", ";">>
Untitled == <<"U", "n", "t", "i", "t", "l", "e", "d">>
SocialImage == <<"S", "o", "c", "i", "a", "l", " ", "i", "m", "a", "g", "e">>

\* text.replace(/c/g, r)
RECURSIVE ReplaceAll(_, _, _)
ReplaceAll(text, c, r) ==
    IF text = <<>> THEN <<>>
    ELSE (IF Head(text) = c THEN r ELSE <<Head(text)>>) \o ReplaceAll(Tail(text), c, r)

\* escapeHtml: four replacements, one after the other, `&` first.
EscapeHtml(text) ==
    ReplaceAll(ReplaceAll(ReplaceAll(ReplaceAll(text, "&", Amp), "<", Lt), ">", Gt),
               "\"", Quot)

\* `a || b` on text: the empty (or undefined) text is falsy.
OrElse(a, b) == IF a = <<>> THEN b ELSE a

\* The two places of a card where generateHtmlReport interpolates the title:
\* the alt attribute of the image and the card-title element.
NoCard == [rendered |-> FALSE, alt |-> <<>>, cardTitle |-> <<>>]
Card(t) ==
    [rendered  |-> TRUE,
     alt       |-> OrElse(t, SocialImage),
     cardTitle |-> EscapeHtml(OrElse(t, Untitled))]

\* -------------------------------------------------------------------- slugify
\* `new URL(url)` either throws or yields a URL of which slugify reads the
\* pathname only.
PathChars == {"/", "a", "_"}
Pathnames == SeqsUpTo(PathChars, MaxPathLen)
Unparseable == [parses |-> FALSE, pathname |-> <<>>]
ParsedUrls == {Unparseable} \cup {[parses |-> TRUE, pathname |-> p] : p \in Pathnames}

Home == <<"h", "o", "m", "e">>
Unknown == <<"u", "n", "k", "n", "o", "w", "n">>

\* text.replace(/^_/, "") and text.replace(/_$/, "")
StripLeading(text) == IF text # <<>> /\ Head(text) = "_" THEN Tail(text) ELSE text
StripTrailing(text) ==
    IF text # <<>> /\ text[Len(text)] = "_" THEN SubSeq(text, 1, Len(text) - 1) ELSE text

\* text.replace("/", "_"): the first occurrence only.
RECURSIVE ReplaceFirst(_, _, _)
ReplaceFirst(text, c, r) ==
    IF text = <<>> THEN <<>>
    ELSE IF Head(text) = c THEN r \o Tail(text)
    ELSE <<Head(text)>> \o ReplaceFirst(Tail(text), c, r)

\* How a call completes: by returning a text or by throwing.
NoSlug == [done |-> FALSE, threw |-> FALSE, text |-> <<>>]
Returned(text) == [done |-> TRUE, threw |-> FALSE, text |-> text]

\* Mutant of Slugify: the first `/` only is replaced.
SlugifyFirstSlash(u) ==
    IF ~u.parses THEN Returned(Unknown)
    ELSE Returned(OrElse(StripTrailing(StripLeading(
                     ReplaceFirst(u.pathname, "/", <<"_">>))), Home))

\* slugify: the whole body is inside try, the catch returns "unknown".
Slugify(u) ==
    IF ~u.parses THEN Returned(Unknown)
    ELSE Returned(OrElse(StripTrailing(StripLeading(
                     ReplaceAll(u.pathname, "/", <<"_">>))), Home))

\* --------------------------------------------------------- image materializer
\* What `new URL(url)` makes of a page URL: slugify reads the pathname, the
\* host and the query string are not looked at.
NewUrl(u) ==
    CASE u = "https://ex.com/a" -> [parses |-> TRUE, pathname |-> <<"/", "a">>]
      [] u = "https://ex.com/a?x=1" -> [parses |-> TRUE, pathname |-> <<"/", "a">>]
      [] u = "https://ex.com/b" -> [parses |-> TRUE, pathname |-> <<"/", "b">>]
      [] u = "https://ex.com" -> [parses |-> TRUE, pathname |-> <<"/">>]
      [] OTHER -> Unparseable

\* The Content-Type header of an image response ("" when there is none), and
\* `contentType.includes(part)`.
ContentTypes == {"image/jpeg", "image/png", ""}
Includes(ct, part) ==
    \/ ct = "image/png" /\ part = "png"
    \/ ct = "image/webp" /\ part = "webp"
    \/ ct = "image/gif" /\ part = "gif"
    \/ ct = "image/svg+xml" /\ part = "svg"

\* The extension downloadImage picks.
ExtOf(ct) ==
    IF Includes(ct, "png") THEN ".png"
    ELSE IF Includes(ct, "webp") THEN ".webp"
    ELSE IF Includes(ct, "gif") THEN ".gif"
    ELSE IF Includes(ct, "svg") THEN ".svg"
    ELSE ".jpg"

\* `${slug}_og` + ext and `${slug}_twitter` + ext in the images directory.
ImagePath(u, kind, ext) == [slug |-> Slugify(NewUrl(u)).text, kind |-> kind, ext |-> ext]

\* Mutant of PageTasks: the twitterImage is downloaded whenever it is present.
PageTasksBoth(p, n) ==
    (IF ~Falsy(p.ogImage)
     THEN <<[index |-> n, page |-> p.url, kind |-> "og", image |-> p.ogImage]>> ELSE <<>>)
    \o (IF ~Falsy(p.twitterImage)
        THEN <<[index |-> n, page |-> p.url, kind |-> "twitter", image |-> p.twitterImage]>>
        ELSE <<>>)

\* The downloads of one iteration of downloadAllImages, for the page p at
\* position n: the ogImage when present, then the twitterImage when present
\* and different.
PageTasks(p, n) ==
    (IF ~Falsy(p.ogImage)
     THEN <<[index |-> n, page |-> p.url, kind |-> "og", image |-> p.ogImage]>> ELSE <<>>)
    \o (IF ~Falsy(p.twitterImage) /\ p.twitterImage # p.ogImage
        THEN <<[index |-> n, page |-> p.url, kind |-> "twitter", image |-> p.twitterImage]>>
        ELSE <<>>)

\* The downloads of downloadAllImages, in the order it issues them.
RECURSIVE TasksFrom(_, _)
TasksFrom(ps, n) ==
    IF ps = <<>> THEN <<>> ELSE PageTasks(Head(ps), n) \o TasksFrom(Tail(ps), n + 1)
DownloadTasks(ps) == TasksFrom(ps, 1)

\* Mutant of DownloadEscapes: the file write is outside the try.
DownloadEscapesWrite(o) == o = "writeThrow"

\* Whether outcome o of a download leaves downloadImage as an exception: the
\* whole body of downloadImage is inside try, the catch only warns.
DownloadEscapes(o) == FALSE

\* ---------------------------------------------------------- Markdown emitter
\* The entry of one page in generateMarkdownReport: its URL, the OG Image
\* section and the Twitter Image section (Absent: no such section).
MarkdownEntry(p) ==
    [url     |-> p.url,
     og      |-> IF ~Falsy(p.ogImage) THEN p.ogImage ELSE Absent,
     twitter |-> IF ~Falsy(p.twitterImage) /\ p.twitterImage # p.ogImage
                 THEN p.twitterImage ELSE Absent]
MarkdownReport(ps) == [n \in DOMAIN ps |-> MarkdownEntry(ps[n])]

\* -------------------------------------------------------------------- state
VARIABLES
    entry,          \* "none", "http" (GET /scrape) or "cli": how the run was entered
    pc,             \* where the run is suspended: "start", "mapping", "scraping",
                    \* "downloading", "settled" (CLI promise settled), "done"
    url,            \* the `url` query parameter / the CLI's targetUrl
    limitParam,     \* the `limit` query parameter
    apiKey,         \* FIRECRAWL_API_KEY
    limit,          \* the limit passed to the discovery call
    mapCalls,       \* discovery calls issued
    mapResult,      \* what the discovery call answered
    urls,           \* the discovered URL sequence
    concurrency,    \* the `concurrency` parameter of the wave loop
    i,              \* the loop variable of the wave loop
    slots,          \* per discovered URL: idle, pending, or its settled value
    answers,        \* history: what the provider answered for each discovered URL
    results,        \* the accumulating `results` array
    waves,          \* history: waves launched
    fetchCalls,     \* history: metadata fetches issued for each discovered URL
    response,       \* the HTTP response sent (status 0: none yet)
    responsesSent,  \* history: HTTP responses sent
    dirs,           \* directories created by fs.mkdirSync
    dlNext,         \* the download of downloadAllImages that is in flight
    imageGets,      \* image GETs issued
    imageRequests,  \* history: the downloads for which a GET was issued, in order
    imageFiles,     \* the image files in the images directory, by path
    imageWrites,    \* history: the image files written, in order
    markdownDoc,    \* the entries of social-images.md as written
    emittersRun,    \* report emitters invoked
    reports,        \* report files written
    promise,        \* the promise of extractSocialImages
    error,          \* the error the run ended with ("" when none)
    exitCode,       \* the exit status of the CLI process once pc = "done"
    title,          \* the page title handed to generateHtmlReport
    card,           \* the card of the HTML report rendered for that title
    slugUrl,        \* what `new URL(url)` makes of the url handed to slugify
    slug            \* how that call of slugify completed

vars == <<entry, pc, url, limitParam, apiKey, limit, mapCalls, mapResult, urls,
          concurrency, i, slots, answers, results, waves, fetchCalls, response,
          responsesSent,
          dirs, dlNext, imageGets, imageRequests, imageFiles, imageWrites,
          markdownDoc, emittersRun, reports, promise,
          error, exitCode, title, card, slugUrl, slug>>

fanoutVars == <<urls, concurrency, i, slots, answers, results, waves, fetchCalls>>
outputVars == <<dirs, dlNext, imageGets, imageRequests, imageFiles, imageWrites,
                markdownDoc, emittersRun, reports>>
cliVars == <<promise, error, exitCode>>
httpVars == <<response, responsesSent>>
pureVars == <<title, card, slugUrl, slug>>

NoAnswer == [kind |-> "none", success |-> FALSE, hasMeta |-> FALSE, meta |-> NoMetadata]

Init ==
    /\ entry = "none"
    /\ pc = "start"
    /\ url = Absent
    /\ limitParam = NoLimitParam
    /\ apiKey = Absent
    /\ limit = 0
    /\ mapCalls = 0
    /\ mapResult = NoMapResponse
    /\ urls = <<>>
    /\ concurrency = 0
    /\ i = 0
    /\ slots = <<>>
    /\ answers = <<>>
    /\ results = <<>>
    /\ waves = 0
    /\ fetchCalls = <<>>
    /\ response = NoResponse
    /\ responsesSent = 0
    /\ dirs = {}
    /\ dlNext = 0
    /\ imageGets = 0
    /\ imageRequests = <<>>
    /\ imageFiles = {}
    /\ imageWrites = <<>>
    /\ markdownDoc = <<>>
    /\ emittersRun = {}
    /\ reports = {}
    /\ promise = "none"
    /\ error = ""
    /\ exitCode = 0
    /\ title = <<>>
    /\ card = NoCard
    /\ slugUrl = Unparseable
    /\ slug = NoSlug

\* `return c.json(body, status)`: the handler's one response.
Respond(r) ==
    /\ response' = r
    /\ responsesSent' = responsesSent + 1
    /\ pc' = "done"

\* The first wave of the loop over `us`: every operation of
\* urls.slice(0, concurrency) is launched before the first await.
LaunchFirstWave(us, c) ==
    /\ urls' = us
    /\ concurrency' = c
    /\ i' = 0
    /\ slots' = [k \in 1..Len(us) |-> IF k \in Batch(us, 0, c) THEN Pending ELSE Idle]
    /\ answers' = [k \in 1..Len(us) |-> NoAnswer]
    /\ results' = <<>>
    /\ waves' = 1
    /\ fetchCalls' = [k \in 1..Len(us) |-> IF k \in Batch(us, 0, c) THEN 1 ELSE 0]

\* --------------------------------------------------------------- HTTP worker
\* app.get("/scrape") up to its first await: validation, the credential check,
\* the limit clamp and the discovery request.
HttpScrape(u, lp, key) ==
    /\ pc = "start"
    /\ entry' = "http"
    /\ url' = u
    /\ limitParam' = lp
    /\ apiKey' = key
    /\ IF Falsy(u)
       THEN /\ Respond(JsonError(400, "Missing required 'url' parameter"))
            /\ UNCHANGED <<limit, mapCalls>>
       ELSE IF ~ParsesAsUrl(u)
       THEN /\ Respond(JsonError(400, "Invalid URL format"))
            /\ UNCHANGED <<limit, mapCalls>>
       ELSE IF NoApiKey(key)
       THEN /\ Respond(JsonError(500, "Server misconfigured: missing API key"))
            /\ UNCHANGED <<limit, mapCalls>>
       ELSE /\ limit' = ClampLimit(lp)
            /\ mapCalls' = mapCalls + 1
            /\ pc' = "mapping"
            /\ UNCHANGED httpVars
    /\ UNCHANGED pureVars
    /\ UNCHANGED <<mapResult, fanoutVars, outputVars, cliVars>>

\* The discovery call of the worker settles: mapSite throws (caught by the
\* handler's try), or answers; on success scrapePages launches its first wave.
HttpMapSettled(m, c) ==
    /\ entry = "http"
    /\ pc = "mapping"
    /\ mapResult' = m
    /\ IF m.kind = "throw"
       THEN /\ Respond(JsonError(500, "Scrape failed"))
            /\ UNCHANGED fanoutVars
       ELSE IF MapFailed(m)
       THEN /\ Respond(JsonError(400, "Failed to map site or no URLs found"))
            /\ UNCHANGED fanoutVars
       ELSE /\ LaunchFirstWave(m.links, c)
            /\ pc' = "scraping"
            /\ UNCHANGED httpVars
    /\ UNCHANGED pureVars
    /\ UNCHANGED <<entry, url, limitParam, apiKey, limit, mapCalls, outputVars, cliVars>>

\* One operation of the wave in flight settles: the provider call of URL k
\* answers r and the operation runs to its return value (scrapePage and the
\* CLI callback catch every error, so the value is a page or null).
ScrapeSettled(k, r) ==
    /\ pc = "scraping"
    /\ k \in DOMAIN slots
    /\ slots[k] = Pending
    /\ entry = "cli" => (r.kind = "throw" \/ r.success)
    /\ slots' = [slots EXCEPT ![k] = IF entry = "http" THEN ScrapePage(urls[k], r)
                                     ELSE ScrapeCallback(urls[k], r)]
    /\ answers' = [answers EXCEPT ![k] = r]
    /\ UNCHANGED pureVars
    /\ UNCHANGED <<entry, pc, url, limitParam, apiKey, limit, mapCalls, mapResult, urls,
                   concurrency, i, results, waves, fetchCalls, httpVars, outputVars, cliVars>>

\* Mutant of WaveSettledNow: the await resolves with the first operation settled.
WaveSettledAny == \E k \in Batch(urls, i, concurrency) : slots[k].st \in {"null", "page"}

\* Mutant of WaveSettledNow: the await resolves only when every operation of
\* the wave returned a page.
WaveSettledAllPages == \A k \in Batch(urls, i, concurrency) : slots[k].st = "page"

\* Promise.allSettled of the wave in flight has resolved.
WaveSettledNow == \A k \in Batch(urls, i, concurrency) : slots[k].st \in {"null", "page"}

\* Mutant of LoopContinues: the loop stops one element short.
LoopContinuesShort == NextIndex(i, concurrency) < Len(urls) - 1

\* The loop test `i < urls.length` after the step `i += concurrency`.
LoopContinues == NextIndex(i, concurrency) < Len(urls)

\* `results` after the pushes that follow the wave in flight.
Collected == results \o Collect(slots, Batch(urls, i, concurrency))

\* The wave in flight has settled and the loop goes round: its values are
\* pushed and every operation of the next batch is launched.
NextWave ==
    /\ pc = "scraping"
    /\ WaveSettledNow
    /\ LoopContinues
    /\ results' = Collected
    /\ i' = NextIndex(i, concurrency)
    /\ slots' = [k \in DOMAIN slots |->
                   IF k \in Batch(urls, NextIndex(i, concurrency), concurrency)
                   THEN Pending ELSE slots[k]]
    /\ waves' = waves + 1
    /\ fetchCalls' = [k \in DOMAIN fetchCalls |->
                        IF k \in Batch(urls, NextIndex(i, concurrency), concurrency)
                        THEN fetchCalls[k] + 1 ELSE fetchCalls[k]]
    /\ UNCHANGED pureVars
    /\ UNCHANGED <<entry, pc, url, limitParam, apiKey, limit, mapCalls, mapResult, urls,
                   concurrency, answers, httpVars, outputVars, cliVars>>

\* The last wave of scrapePages has settled: the handler filters the pages and
\* answers 200 with the ScrapeResult.
HttpLastWave ==
    /\ entry = "http"
    /\ pc = "scraping"
    /\ WaveSettledNow
    /\ ~LoopContinues
    /\ results' = Collected
    /\ i' = NextIndex(i, concurrency)
    /\ Respond(JsonResult(urls, Collected))
    /\ UNCHANGED pureVars
    /\ UNCHANGED <<entry, url, limitParam, apiKey, limit, mapCalls, mapResult, urls,
                   concurrency, slots, answers, waves, fetchCalls, outputVars, cliVars>>

\* ----------------------------------------------------------------------- CLI
\* The options the CLI passes: `downloadImages: true`.
DownloadImages == TRUE

\* What a filesystem call can do.
FsOutcomes == {"ok", "throw"}
\* What one downloadImage can meet: fetch throws, a non-ok status, the write
\* throws, or the file is saved.  All but the last are contained by it.
DownloadOutcomes == {"throw", "notOk", "writeThrow", "saved"}
\* Which of the three report writes throws ("ok": none).
EmitOutcomes == {"ok", "markdown", "html", "json"}

\* The emitters, in the order extractSocialImages calls them.
EmittersUpTo(e) ==
    CASE e = "markdown" -> {"markdown"}
      [] e = "html" -> {"markdown", "html"}
      [] OTHER -> {"markdown", "html", "json"}

\* extractSocialImages throws (its promise rejects) with error msg.
Reject(msg) ==
    /\ promise' = "rejected"
    /\ error' = msg
    /\ pc' = "settled"

\* Steps 4, 5 and the JSON save of extractSocialImages, which run without an
\* await: a write that throws ends the function, the later writes never run.
WriteReports(ps, e) ==
    /\ markdownDoc' = IF e = "markdown" THEN <<>> ELSE MarkdownReport(ps)
    /\ emittersRun' = EmittersUpTo(e)
    /\ reports' = EmittersUpTo(e) \ {e}
    /\ IF e = "ok"
       THEN /\ promise' = "fulfilled"
            /\ error' = ""
            /\ pc' = "settled"
       ELSE Reject(e)

\* The top of the script: the credential check, then the call of
\* extractSocialImages up to its first await (the discovery call).
CliMain(key, c) ==
    /\ pc = "start"
    /\ entry' = "cli"
    /\ url' = TargetUrl
    /\ apiKey' = key
    /\ IF Falsy(key)
       THEN /\ exitCode' = 1
            /\ pc' = "done"
            /\ UNCHANGED <<limit, mapCalls, concurrency, promise>>
       ELSE /\ limit' = CliLimit
            /\ concurrency' = c
            /\ mapCalls' = mapCalls + 1
            /\ promise' = "pending"
            /\ pc' = "mapping"
            /\ UNCHANGED exitCode
    /\ UNCHANGED pureVars
    /\ UNCHANGED <<limitParam, mapResult, urls, i, slots, answers, results, waves, fetchCalls,
                   httpVars, outputVars, error>>

\* What firecrawl.map can do: the SDK throws on a provider failure.
CliMapResponses == {m \in MapResponses : m.kind = "throw" \/ m.success}

\* The discovery call of the CLI settles.
CliMapSettled(m) ==
    /\ entry = "cli"
    /\ pc = "mapping"
    /\ mapResult' = m
    /\ IF m.kind = "throw"
       THEN /\ Reject("map threw")
            /\ UNCHANGED fanoutVars
       ELSE IF MapEmpty(m)
       THEN /\ Reject("Map failed or returned no links")
            /\ UNCHANGED fanoutVars
       ELSE /\ LaunchFirstWave(m.links, concurrency)
            /\ pc' = "scraping"
            /\ UNCHANGED <<promise, error>>
    /\ UNCHANGED pureVars
    /\ UNCHANGED <<entry, url, limitParam, apiKey, limit, mapCalls, httpVars, outputVars,
                   exitCode>>

\* The last wave of the CLI has settled: the function runs on, without an
\* await, through mkdirSync(outputDir) and either into downloadAllImages up to
\* its first image GET, or through the three report writes.
CliLastWave(fsOut, fsImg, e) ==
    /\ entry = "cli"
    /\ pc = "scraping"
    /\ WaveSettledNow
    /\ ~LoopContinues
    /\ results' = Collected
    /\ i' = NextIndex(i, concurrency)
    /\ IF fsOut = "throw"
       THEN /\ Reject("mkdir output")
            /\ UNCHANGED outputVars
       ELSE IF DownloadImages /\ Len(Collected) > 0
       THEN IF fsImg = "throw"
            THEN /\ Reject("mkdir images")
                 /\ dirs' = {"output"}
                 /\ UNCHANGED <<dlNext, imageGets, imageRequests, imageFiles, imageWrites,
                                markdownDoc, emittersRun, reports>>
            ELSE /\ dirs' = {"output", "images"}
                 /\ dlNext' = 1
                 /\ imageGets' = imageGets + 1
                 /\ imageRequests' = <<DownloadTasks(Collected)[1]>>
                 /\ pc' = "downloading"
                 /\ UNCHANGED <<imageFiles, imageWrites, markdownDoc, emittersRun, reports,
                                promise, error>>
       ELSE /\ dirs' = {"output"}
            /\ WriteReports(Collected, e)
            /\ UNCHANGED <<dlNext, imageGets, imageRequests, imageFiles, imageWrites>>
    /\ UNCHANGED pureVars
    /\ UNCHANGED <<entry, url, limitParam, apiKey, limit, mapCalls, mapResult, urls,
                   concurrency, slots, answers, waves, fetchCalls, httpVars, exitCode>>

\* The image GET in flight settles with outcome o (and, when it answers,
\* Content-Type ct); downloadAllImages issues the next GET, or returns and the
\* three report writes run.
DownloadSettled(o, ct, e) ==
    /\ pc = "downloading"
    /\ LET tasks == DownloadTasks(results)
           t == tasks[dlNext]
           path == ImagePath(t.page, t.kind, ExtOf(ct))
       IN  /\ imageFiles' = IF o = "saved" THEN imageFiles \cup {path} ELSE imageFiles
           /\ imageWrites' = IF o = "saved"
                             THEN Append(imageWrites, [index |-> t.index, path |-> path])
                             ELSE imageWrites
           /\ IF DownloadEscapes(o)
              THEN /\ Reject("download")
                   /\ dlNext' = 0
                   /\ UNCHANGED <<imageGets, imageRequests, markdownDoc, emittersRun, reports>>
              ELSE IF dlNext < Len(tasks)
              THEN /\ dlNext' = dlNext + 1
                   /\ imageGets' = imageGets + 1
                   /\ imageRequests' = Append(imageRequests, tasks[dlNext + 1])
                   /\ UNCHANGED <<pc, markdownDoc, emittersRun, reports, promise, error>>
              ELSE /\ dlNext' = 0
                   /\ WriteReports(results, e)
                   /\ UNCHANGED <<imageGets, imageRequests>>
    /\ UNCHANGED pureVars
    /\ UNCHANGED <<entry, url, limitParam, apiKey, limit, mapCalls, mapResult, fanoutVars,
                   httpVars, dirs, exitCode>>

\* The status the process ends with once the promise chain has run: the
\* `.then` handler on fulfilment, `.catch(console.error)` on rejection; neither
\* sets process.exitCode nor calls process.exit.
ExitStatus(p) == 0

\* The promise has settled, its handler runs and the process ends.
CliExit ==
    /\ entry = "cli"
    /\ pc = "settled"
    /\ exitCode' = ExitStatus(promise)
    /\ pc' = "done"
    /\ UNCHANGED pureVars
    /\ UNCHANGED <<entry, url, limitParam, apiKey, limit, mapCalls, mapResult, fanoutVars,
                   httpVars, outputVars, promise, error>>

\* ------------------------------------------------------------ specifications
Concurrencies == 1..MaxConcurrency

\* The two entry points over every answer of the provider.  The image
\* downloads of the CLI all succeed here; SpecImages has their failures.
Next ==
    \/ \E u \in UrlParams, lp \in SampleLimitParams, key \in Keys : HttpScrape(u, lp, key)
    \/ \E m \in MapResponses, c \in Concurrencies : HttpMapSettled(m, c)
    \/ \E k \in 1..MaxUrls + 1, r \in ScrapeResponses : ScrapeSettled(k, r)
    \/ NextWave
    \/ HttpLastWave
    \/ \E key \in Keys, c \in Concurrencies : CliMain(key, c)
    \/ \E m \in CliMapResponses : CliMapSettled(m)
    \/ \E fsOut \in FsOutcomes, fsImg \in FsOutcomes, e \in EmitOutcomes :
          CliLastWave(fsOut, fsImg, e)
    \/ \E e \in EmitOutcomes : DownloadSettled("saved", "image/jpeg", e)
    \/ CliExit

Spec == Init /\ [][Next]_vars

\* For termination what a metadata fetch answers matters only as far as it
\* throws or yields a page: one answer of each kind.
LiveResponses ==
    {r \in ScrapeDocuments :
        \/ r.kind = "throw"
        \/ r.hasMeta /\ r.meta = [ogImage |-> "https://ex.com/i.jpg", twitterImage |-> Absent]}

\* The steps of a run once it is entered: a provider or image request in
\* flight settles, or a continuation that is ready runs.
RunStep ==
    \/ \E m \in MapResponses, c \in Concurrencies : HttpMapSettled(m, c)
    \/ \E k \in 1..MaxUrls + 1, r \in LiveResponses : ScrapeSettled(k, r)
    \/ NextWave
    \/ HttpLastWave
    \/ \E m \in CliMapResponses : CliMapSettled(m)
    \/ \E fsOut \in FsOutcomes, fsImg \in FsOutcomes, e \in EmitOutcomes :
          CliLastWave(fsOut, fsImg, e)
    \/ \E e \in EmitOutcomes : DownloadSettled("saved", "image/jpeg", e)
    \/ CliExit

NextLive ==
    \/ \E u \in UrlParams, lp \in SampleLimitParams, key \in Keys : HttpScrape(u, lp, key)
    \/ \E key \in Keys, c \in Concurrencies : CliMain(key, c)
    \/ RunStep

\* The runs in which every request in flight eventually settles and the event
\* loop eventually runs every continuation that is ready.
SpecLive == Init /\ [][NextLive]_vars /\ WF_vars(RunStep)

\* The request handler alone, over every limit string: the specification of
\* the limit clamp.
NextLimit ==
    \E u \in UrlParams, lp \in LimitParams, key \in Keys : HttpScrape(u, lp, key)

SpecLimit == Init /\ [][NextLimit]_vars

\* generateHtmlReport renders the card of a page whose title is t.
GenerateHtmlReport(t) ==
    /\ ~card.rendered
    /\ title' = t
    /\ card' = Card(t)
    /\ UNCHANGED <<entry, pc, url, limitParam, apiKey, limit, mapCalls, mapResult,
                   fanoutVars, httpVars, outputVars, cliVars, slugUrl, slug>>

\* The HTML emitter alone, over every title.
NextHtml == \E t \in Titles : GenerateHtmlReport(t)

SpecHtml == Init /\ [][NextHtml]_vars

\* slugify is called on a url that parses as u.
SlugifyCall(u) ==
    /\ ~slug.done
    /\ slugUrl' = u
    /\ slug' = Slugify(u)
    /\ UNCHANGED <<entry, pc, url, limitParam, apiKey, limit, mapCalls, mapResult,
                   fanoutVars, httpVars, outputVars, cliVars, title, card>>

\* slugify alone, over every pathname.
NextSlug == \E u \in ParsedUrls : SlugifyCall(u)

SpecSlug == Init /\ [][NextSlug]_vars

\* The CLI run over pages that all have images, with every outcome of every
\* image download: the specification of the image materializer.
NextImages ==
    \/ \E c \in Concurrencies : CliMain("fc-key", c)
    \/ \E m \in ImageMapResponses : CliMapSettled(m)
    \/ \E k \in 1..MaxPages, r \in ImageDocuments : ScrapeSettled(k, r)
    \/ NextWave
    \/ CliLastWave("ok", "ok", "ok")
    \/ \E o \in DownloadOutcomes, ct \in ContentTypes : DownloadSettled(o, ct, "ok")
    \/ CliExit

SpecImages == Init /\ [][NextImages]_vars

\* ------------------------------------------------------------------- claims
\* Vocabulary of the claims, stated on the provider's answers and not on the
\* code's own tests.

\* An image field is present: a non-empty string.
Present(v) == v # Absent /\ v # ""
HasImage(p) == Present(p.ogImage) \/ Present(p.twitterImage)

\* The metadata fetch of one URL succeeded and returned at least one image.
FetchedWithImage(r) ==
    r.kind = "json" /\ r.success /\ r.hasMeta /\ HasImage(r.meta)

\* The discovery call failed: it threw, the provider reported failure, or it
\* returned zero links.
DiscoveryThrew == mapResult.kind = "throw"
DiscoveryYieldsNothing ==
    mapResult.kind = "json" /\ (~mapResult.success \/ ~mapResult.hasLinks
                                  \/ mapResult.links = <<>>)
DiscoveryFailed == DiscoveryThrew \/ DiscoveryYieldsNothing
DiscoverySucceeded == mapResult.kind = "json" /\ ~DiscoveryYieldsNothing

HttpResponded == entry = "http" /\ response.status # 0
HttpOk == entry = "http" /\ response.status = 200
CliSettled == entry = "cli" /\ promise \in {"fulfilled", "rejected"}
\* The wave loop has been left.
FanoutDone == DiscoverySucceeded /\ pc \in {"downloading", "settled", "done"}

Indices == DOMAIN urls
InFlight == Cardinality({k \in DOMAIN slots : slots[k] = Pending})
CeilDiv(n, c) == (n + c - 1) \div c
\* The number of occurrences of p in the sequence ps.
Occurrences(p, ps) == Cardinality({j \in DOMAIN ps : ps[j] = p})
\* The page that the answer to URL k stands for.
PageAnswered(k) ==
    PageOf(urls[k], answers[k].meta.ogImage, answers[k].meta.twitterImage)
\* The aggregate of the run: the `pages` of the 200 response, or the array
\* the CLI writes and returns.
Aggregate == IF entry = "http" THEN response.pages ELSE results
AggregateKnown ==
    \/ HttpOk
    \/ entry = "cli" /\ FanoutDone

\* C1: every Page Result of an aggregate (the pages of a 200 response, the
\* array the CLI writes and returns) has a non-empty ogImage or a non-empty
\* twitterImage.
C1_PagesHaveImage ==
    AggregateKnown => \A j \in DOMAIN Aggregate : HasImage(Aggregate[j])

\* A CLI run returned a page although the provider also answered one URL
\* with metadata whose image fields are empty strings.
C1_Witness ==
    /\ entry = "cli"
    /\ promise = "fulfilled"
    /\ Len(results) >= 1
    /\ \E k \in Indices : answers[k].hasMeta /\ answers[k].meta.ogImage = ""

\* C2: in a 200 response pagesScanned is the length of the discovered
\* sequence, pagesWithImages the length of pages, and
\* pagesScanned >= pagesWithImages >= 0.
C2_Counts ==
    HttpOk =>
        /\ response.pagesScanned = Len(mapResult.links)
        /\ response.pagesWithImages = Len(response.pages)
        /\ response.pagesScanned >= response.pagesWithImages
        /\ response.pagesWithImages >= 0

\* A 200 response for a discovered sequence with a duplicate URL, of which
\* some but not all occurrences gave a page.
C2_Witness ==
    /\ HttpOk
    /\ \E j, k \in Indices : j # k /\ urls[j] = urls[k]
    /\ response.pagesWithImages >= 1
    /\ response.pagesWithImages < response.pagesScanned

\* C3: the fan-out over N URLs with concurrency c runs in exactly ceil(N/c)
\* waves; a failing item stops nothing: a run whose discovery succeeded never
\* ends before every operation of every wave has settled, and the result holds
\* the page of every item that succeeded with an image.
C3_Waves ==
    /\ (DiscoverySucceeded /\ pc = "scraping") =>
          waves = (i \div concurrency) + 1 /\ waves <= CeilDiv(Len(urls), concurrency)
    /\ (DiscoverySucceeded /\ pc # "scraping") =>
          /\ FanoutDone
          /\ waves = CeilDiv(Len(urls), concurrency)
          /\ \A k \in Indices : slots[k].st \in {"null", "page"}
          /\ \A k \in Indices :
                FetchedWithImage(answers[k]) => \E j \in DOMAIN results : results[j] = PageAnswered(k)

\* Three URLs with concurrency 2: the first item threw in wave 1, wave 2 ran
\* and its item is in the result.
C3_Witness ==
    /\ FanoutDone
    /\ Len(urls) = 3
    /\ concurrency = 2
    /\ waves = 2
    /\ answers[1].kind = "throw"
    /\ FetchedWithImage(answers[2])
    /\ FetchedWithImage(answers[3])
    /\ Len(results) = 2

\* C4: at every point the number of fetchMetadata operations started and not
\* yet settled is at most `concurrency`.
C4_InFlightBounded == InFlight <= concurrency

\* More URLs than the ceiling, and as many operations in flight as it allows.
C4_Witness ==
    /\ pc = "scraping"
    /\ concurrency = 2
    /\ Len(urls) > concurrency
    /\ InFlight = concurrency

\* C5: the pages of the aggregate are exactly the discovered URL occurrences
\* whose fetch succeeded with an image, each once, with the provider's
\* ogImage and twitterImage verbatim; every other occurrence contributes
\* nothing and still counts in pagesScanned.
C5_PagesExact ==
    AggregateKnown =>
        /\ Len(Aggregate) = Cardinality({k \in Indices : FetchedWithImage(answers[k])})
        /\ \A k \in Indices :
              FetchedWithImage(answers[k]) =>
                  Occurrences(PageAnswered(k), Aggregate)
                    = Cardinality({j \in Indices : /\ FetchedWithImage(answers[j])
                                                   /\ PageAnswered(j) = PageAnswered(k)})
        /\ HttpOk => response.pagesScanned = Len(urls)

\* The scenario of the specification: discovery [a, b], a with an ogImage, b
\* without metadata.
C5_Witness ==
    /\ HttpOk
    /\ urls = <<"https://ex.com/a", "https://ex.com/b">>
    /\ FetchedWithImage(answers[1])
    /\ answers[2].kind = "json" /\ answers[2].success /\ ~answers[2].hasMeta
    /\ response.pagesScanned = 2
    /\ response.pagesWithImages = 1
    /\ response.pages = <<PageOf("https://ex.com/a", "https://ex.com/i.jpg", Absent)>>

\* C6: after a discovery failure no fetchMetadata operation is started, no
\* image is requested or written, no report is written, and the run ends with
\* one error: an error body over HTTP, a rejection in the CLI.
C6_DiscoveryFailureTerminal ==
    DiscoveryFailed =>
        /\ urls = <<>> /\ waves = 0 /\ InFlight = 0
        /\ imageGets = 0 /\ imageFiles = {}
        /\ emittersRun = {} /\ reports = {} /\ dirs = {}
        /\ entry = "http" =>
              /\ response.status \in {400, 500}
              /\ response.error # ""
              /\ response.pages = <<>>
              /\ responsesSent = 1
        /\ entry = "cli" => promise = "rejected" /\ error # ""

\* The provider answered a successful discovery with zero links.
C6_Witness ==
    /\ entry = "http"
    /\ mapResult.kind = "json" /\ mapResult.success /\ mapResult.hasLinks
    /\ mapResult.links = <<>>
    /\ response.status = 400

\* C7: the CLI process exits with a non-zero status when discovery fails or
\* the credential is missing, and with status 0 when the run completes.
C7_ExitStatus ==
    (entry = "cli" /\ pc = "done") =>
        /\ (Falsy(apiKey) \/ DiscoveryFailed) => exitCode # 0
        /\ promise = "fulfilled" => exitCode = 0

\* C8, as stated: each request gets one response, 400 when url is missing or
\* malformed or discovery yields failure or no links, 500 when the credential
\* is missing or the discovery call throws, 200 otherwise.
C8_StatusAsStated ==
    /\ entry = "http" => responsesSent = (IF pc = "done" THEN 1 ELSE 0)
    /\ HttpResponded =>
          /\ (Falsy(url) \/ ~ParsesAsUrl(url) \/ DiscoveryYieldsNothing)
                => response.status = 400
          /\ (Falsy(apiKey) \/ DiscoveryThrew) => response.status = 500
          /\ ~(Falsy(url) \/ ~ParsesAsUrl(url) \/ DiscoveryYieldsNothing
                 \/ Falsy(apiKey) \/ DiscoveryThrew)
                => response.status = 200

\* C8, amended: the url is judged before the credential.  400 when url is
\* missing or malformed; otherwise 500 when the credential is missing;
\* otherwise 500 when the discovery call throws and 400 when it yields
\* failure or no links; 200 with the aggregate in every other case.
C8_Status ==
    /\ entry = "http" => responsesSent = (IF pc = "done" THEN 1 ELSE 0)
    /\ HttpResponded =>
          response.status =
              (IF Falsy(url) \/ ~ParsesAsUrl(url) THEN 400
               ELSE IF Falsy(apiKey) THEN 500
               ELSE IF DiscoveryThrew THEN 500
               ELSE IF DiscoveryYieldsNothing THEN 400
               ELSE 200)

\* A 200 response of a run in which every per-URL fetch threw.
C8_Witness ==
    /\ HttpOk
    /\ Len(urls) = 3
    /\ \A k \in Indices : answers[k].kind = "throw"
    /\ response.pages = <<>>

\* The position of the first character of t that is not white space
\* (Len(t) + 1 when there is none).
FirstNonSpace(t) ==
    CHOOSE n \in 1..Len(t) + 1 :
        /\ \A j \in 1..n - 1 : t[j] = " "
        /\ n <= Len(t) => t[n] # " "
Unpadded(t) == SubSeq(t, FirstNonSpace(t), Len(t))
\* The position of the last character of t that is not white space (0 when
\* there is none).
LastNonSpace(t) ==
    CHOOSE n \in 0..Len(t) :
        /\ \A j \in n + 1..Len(t) : t[j] = " "
        /\ n >= 1 => t[n] # " "
\* t without the white space around it.
Trimmed(t) == SubSeq(t, FirstNonSpace(t), LastNonSpace(t))
\* A string is a decimal integer: an optional sign, then digits and nothing
\* else.
IsNumeral(t) ==
    LET ds == IF t # <<>> /\ t[1] \in {"-", "+"} THEN Tail(t) ELSE t
    IN  ds # <<>> /\ \A j \in DOMAIN ds : ds[j] \in {"0", "1", "2", "3", "4", "5", "6", "7", "8", "9"}
\* Its value.
RECURSIVE NumeralMagnitude(_, _)
NumeralMagnitude(ds, acc) ==
    IF ds = <<>> THEN acc ELSE NumeralMagnitude(Tail(ds), 10 * acc + DigitVal[Head(ds)])
NumeralValue(t) ==
    IF t[1] = "-" THEN 0 - NumeralMagnitude(Tail(t), 0)
    ELSE IF t[1] = "+" THEN NumeralMagnitude(Tail(t), 0)
    ELSE NumeralMagnitude(t, 0)
\* The lengths of the prefixes of t that are decimal integers.
NumeralPrefixes(t) == {n \in 1..Len(t) : IsNumeral(SubSeq(t, 1, n))}
LongestNumeralPrefix(t) ==
    SubSeq(t, 1, CHOOSE n \in NumeralPrefixes(t) : \A m \in NumeralPrefixes(t) : m <= n)

DiscoveryIssued == entry = "http" /\ mapCalls = 1

\* C9, as stated: the limit passed to discovery lies in [1,100]; a non-numeric
\* or non-positive input becomes 50, an input above 100 becomes 100, an input
\* in [1,100] is passed unchanged.  (A decimal integer with white space
\* around it is taken as numeric.)
C9_ClampAsStated ==
    DiscoveryIssued =>
        /\ limit \in 1..100
        /\ LET t == Trimmed(limitParam.text)
           IN  IF ~limitParam.present \/ ~IsNumeral(t) THEN limit = 50
               ELSE IF NumeralValue(t) < 1 THEN limit = 50
               ELSE IF NumeralValue(t) > 100 THEN limit = 100
               ELSE limit = NumeralValue(t)

\* C9, amended: the limit passed to discovery lies in [1,100] and is decided
\* by the longest prefix of the parameter (leading white space apart) that is
\* a decimal integer, whatever follows it: 50 when there is none or it is
\* below 1, 100 when it is above 100, the integer itself otherwise.
C9_Clamp ==
    DiscoveryIssued =>
        /\ limit \in 1..100
        /\ LET t == Unpadded(limitParam.text)
           IN  IF ~limitParam.present \/ NumeralPrefixes(t) = {} THEN limit = 50
               ELSE LET v == NumeralValue(LongestNumeralPrefix(t))
                    IN  IF v < 1 THEN limit = 50
                        ELSE IF v > 100 THEN limit = 100
                        ELSE limit = v

\* limit=19x reaches the discovery call as 19.
C9_Witness ==
    /\ DiscoveryIssued
    /\ limitParam.present
    /\ limitParam.text = <<"1", "9", "x">>
    /\ limit = 19

\* C10: in a CLI run whose discovery succeeded, an error of image
\* materialization or of one report emitter leaves every other report written.
C10_EmittersIsolated ==
    (CliSettled /\ DiscoverySucceeded
       /\ error \in {"mkdir images", "markdown", "html", "json"}) =>
        \A e \in {"markdown", "html", "json"} \ {error} : e \in reports

\* The escaped rendering of a text, character by character.
RECURSIVE EscapedText(_)
EscapedText(text) ==
    IF text = <<>> THEN <<>>
    ELSE (CASE Head(text) = "&" -> Amp
            [] Head(text) = "<" -> Lt
            [] Head(text) = ">" -> Gt
            [] Head(text) = "\"" -> Quot
            [] OTHER -> <<Head(text)>>) \o EscapedText(Tail(text))

\* C11: when a page's title contains `&`, `<`, `>` or `"`, every place of the
\* emitted HTML document where the title occurs holds its escaped rendering:
\* no raw occurrence of the title reaches the output.
C11_TitleEscaped ==
    (card.rendered /\ title # <<>>) =>
        /\ card.cardTitle = EscapedText(title)
        /\ card.alt = EscapedText(title)

\* The pathname with every `/` replaced by `_`.
Underscored(p) == [k \in 1..Len(p) |-> IF p[k] = "/" THEN "_" ELSE p[k]]
\* A text without its leading `_`, and without its trailing `_`.
WithoutLeading(text) ==
    IF Len(text) > 0 /\ text[1] = "_" THEN SubSeq(text, 2, Len(text)) ELSE text
WithoutTrailing(text) ==
    IF Len(text) > 0 /\ text[Len(text)] = "_" THEN SubSeq(text, 1, Len(text) - 1) ELSE text

\* C12: slugify never throws; it maps an unparseable URL to "unknown" and a
\* URL to its pathname with every `/` replaced by `_` and one leading and one
\* trailing `_` stripped, or to "home" when that leaves nothing.
C12_Slugify ==
    slug.done =>
        /\ ~slug.threw
        /\ IF ~slugUrl.parses THEN slug.text = Unknown
           ELSE LET stripped == WithoutTrailing(WithoutLeading(Underscored(slugUrl.pathname)))
                IN  slug.text = (IF stripped = <<>> THEN Home ELSE stripped)

\* slugify("https://x.com/a/a/") = "a_a".
C12_Witness ==
    /\ slug.done
    /\ slugUrl.parses
    /\ slugUrl.pathname = <<"/", "a", "/", "a", "/">>
    /\ slug.text = <<"a", "_", "a">>

\* The wave that the operation of URL k belongs to.
WaveOf(k) == ((k - 1) \div concurrency) + 1
Started(k) == slots[k].st # "idle"
Settled(k) == slots[k].st \in {"null", "page"}

\* C13: waves are strictly sequential: whenever an operation of a wave has
\* been started, every operation of every earlier wave has settled, whatever
\* the order in which the operations complete.
C13_WavesSequential ==
    \A j, k \in DOMAIN slots :
        (WaveOf(j) < WaveOf(k) /\ Started(k)) => Settled(j)

\* Three URLs with concurrency 2: the second wave is in flight, and in the
\* first wave the item that failed was followed by one that succeeded.
C13_Witness ==
    /\ pc = "scraping"
    /\ concurrency = 2
    /\ Len(urls) = 3
    /\ slots[3] = Pending
    /\ slots[1] = Null
    /\ slots[2].st = "page"

\* C14: nothing is retried: the discovery call is issued at most once, and
\* exactly once in a run that got as far as discovery; a metadata fetch is
\* issued at most once for each element of the discovered sequence (a URL
\* discovered twice is fetched once per occurrence), and exactly once for each
\* by the time the fan-out is over, whatever the fetches answered.
C14_NoRetry ==
    /\ mapCalls <= 1
    /\ (pc \in {"mapping", "scraping", "downloading"} \/ mapResult.kind # "none") => mapCalls = 1
    /\ DOMAIN fetchCalls = DOMAIN urls
    /\ \A k \in Indices : fetchCalls[k] = (IF Started(k) THEN 1 ELSE 0)
    /\ (DiscoverySucceeded /\ pc # "scraping") => \A k \in Indices : fetchCalls[k] = 1

\* The same URL discovered twice and a third URL, fetched in two waves; the
\* first fetch threw and the second answered without metadata.
C14_Witness ==
    /\ FanoutDone
    /\ concurrency = 2
    /\ Len(urls) = 3
    /\ urls[1] = urls[2]
    /\ answers[1].kind = "throw"
    /\ answers[2].kind = "json" /\ ~answers[2].hasMeta
    /\ \A k \in Indices : fetchCalls[k] = 1

\* Nothing of a run has happened: no provider request and no file.
NothingStarted ==
    /\ mapCalls = 0
    /\ mapResult = NoMapResponse
    /\ urls = <<>>
    /\ fetchCalls = <<>>
    /\ dirs = {}
    /\ imageGets = 0
    /\ imageFiles = {}
    /\ emittersRun = {}
    /\ reports = {}
\* The CLI process has exited without having called extractSocialImages.
CliExitedBeforeClient == pc = "done" /\ promise = "none" /\ exitCode # 0

\* C15, as stated: when the credential is missing the run never starts: no
\* discovery request, no metadata fetch, no file; the HTTP entry point answers
\* 500 and the CLI exits before constructing the client.
C15_NeverStartsAsStated ==
    (entry # "none" /\ Falsy(apiKey)) =>
        /\ NothingStarted
        /\ entry = "http" => pc = "done" /\ response.status = 500
        /\ entry = "cli" => CliExitedBeforeClient

\* C15, amended: when the credential is missing the run never starts: no
\* discovery request, no metadata fetch, no file; the HTTP entry point answers
\* without calling the provider, 400 when url is missing or malformed and 500
\* otherwise, and the CLI exits before constructing the client.
C15_NeverStarts ==
    (entry # "none" /\ Falsy(apiKey)) =>
        /\ NothingStarted
        /\ entry = "http" =>
              /\ pc = "done"
              /\ response.status = (IF Falsy(url) \/ ~ParsesAsUrl(url) THEN 400 ELSE 500)
        /\ entry = "cli" => CliExitedBeforeClient

\* A request with a well-formed url and an empty credential, answered 500.
C15_Witness ==
    /\ entry = "http"
    /\ apiKey = ""
    /\ ParsesAsUrl(url)
    /\ response.status = 500
    /\ NothingStarted

\* The images of a page that are to be downloaded: its ogImage when present,
\* its twitterImage when present and different from the ogImage.
WantsOg(p) == Present(p.ogImage)
WantsTwitter(p) == Present(p.twitterImage) /\ p.twitterImage # p.ogImage
\* The image GETs issued for the page at position n of the aggregate.
RequestsOf(n, kind) ==
    {j \in DOMAIN imageRequests :
        imageRequests[j].index = n /\ imageRequests[j].kind = kind}
\* downloadAllImages has iterated and has been left.
MaterializationOver == entry = "cli" /\ "images" \in dirs /\ pc \in {"settled", "done"}

\* C16: once downloadAllImages iterates, a failed download (transport error,
\* non-success status, file-write error) is contained: it never rejects the
\* run, and a download is still attempted for every image of every page.
C16_DownloadsContained ==
    /\ pc = "downloading" => promise = "pending"
    /\ promise = "rejected" => error # "download"
    /\ MaterializationOver =>
          \A n \in DOMAIN results :
              /\ WantsOg(results[n]) => RequestsOf(n, "og") # {}
              /\ WantsTwitter(results[n]) => RequestsOf(n, "twitter") # {}

\* Two pages: both downloads of the first failed, and the download of the
\* second was attempted and saved.
C16_Witness ==
    /\ MaterializationOver
    /\ Len(results) = 2
    /\ Len(imageRequests) = 3
    /\ imageRequests[1].index = 1
    /\ imageRequests[2].index = 1
    /\ imageRequests[3].index = 2
    /\ Len(imageWrites) = 1
    /\ imageWrites[1].index = 2

\* C17: materialization and emission start only after the full aggregate is
\* known: while a metadata fetch is unsettled or a wave has not started, no
\* image GET has been issued and no image or report file has been written.
C17_AfterAggregate ==
    (imageGets > 0 \/ imageFiles # {} \/ emittersRun # {} \/ reports # {}) =>
        /\ DiscoverySucceeded
        /\ \A k \in Indices : Settled(k)

\* Three URLs fetched in two waves, and the first image GET in flight.
C17_Witness ==
    /\ pc = "downloading"
    /\ imageGets = 1
    /\ Len(urls) = 3
    /\ waves = 2
    /\ \A k \in Indices : Settled(k)

\* C18: image writes go to disjoint files: the files written for two
\* different Page Results (pages that differ only in host or query string and
\* duplicate discovered URLs included) never have the same path.
C18_DisjointFiles ==
    \A j, k \in DOMAIN imageWrites :
        imageWrites[j].index # imageWrites[k].index =>
            imageWrites[j].path # imageWrites[k].path

\* C20: one image GET per distinct image URL of a page: one for the ogImage
\* when present, one for the twitterImage when present and different, none
\* otherwise; a page whose twitterImage equals its ogImage has no Twitter
\* section in the Markdown report.
C20_OneGetPerImage ==
    /\ \A j \in DOMAIN imageRequests :
          /\ imageRequests[j].index \in DOMAIN results
          /\ imageRequests[j].image =
                (IF imageRequests[j].kind = "og"
                 THEN results[imageRequests[j].index].ogImage
                 ELSE results[imageRequests[j].index].twitterImage)
    /\ \A n \in DOMAIN results :
          /\ Cardinality(RequestsOf(n, "og")) <= 1
          /\ Cardinality(RequestsOf(n, "twitter")) <= 1
          /\ ~WantsOg(results[n]) => RequestsOf(n, "og") = {}
          /\ ~WantsTwitter(results[n]) => RequestsOf(n, "twitter") = {}
    /\ MaterializationOver =>
          \A n \in DOMAIN results :
              /\ Cardinality(RequestsOf(n, "og")) = (IF WantsOg(results[n]) THEN 1 ELSE 0)
              /\ Cardinality(RequestsOf(n, "twitter")) =
                    (IF WantsTwitter(results[n]) THEN 1 ELSE 0)
    /\ markdownDoc # <<>> =>
          \A n \in DOMAIN results :
              results[n].twitterImage = results[n].ogImage =>
                  markdownDoc[n].twitter = Absent

\* A page whose twitterImage equals its ogImage, followed by one whose images
\* differ: one GET and one file (`_og`) for the first, two for the second, and
\* the Markdown report has a Twitter section for the second only.
C20_Witness ==
    /\ MaterializationOver
    /\ Len(results) = 2
    /\ Present(results[1].ogImage) /\ results[1].twitterImage = results[1].ogImage
    /\ WantsOg(results[2]) /\ WantsTwitter(results[2])
    /\ Len(imageRequests) = 3
    /\ imageRequests[1].index = 1 /\ imageRequests[1].kind = "og"
    /\ Len(imageWrites) = 3
    /\ imageWrites[1].path.kind = "og"
    /\ Len(markdownDoc) = 2
    /\ markdownDoc[1].twitter = Absent
    /\ markdownDoc[2].twitter = results[2].twitterImage

\* The run is over: the response is sent, or the CLI process has ended.
RunFinished == pc = "done"

\* C19: a run with any finite discovered sequence and any concurrency >= 1
\* runs to completion: provided every provider and image request in flight
\* eventually settles, a run that has been entered eventually finishes, having
\* started no more waves than there are discovered URLs.
C19_RunsToCompletion ==
    /\ [](waves <= Len(urls))
    /\ (entry # "none") ~> RunFinished

\* A CLI run of three URLs in two waves that has ended after its downloads.
C19_Witness ==
    /\ entry = "cli"
    /\ RunFinished
    /\ Len(urls) = 3
    /\ waves = 2
    /\ imageGets > 0

\* The discovered positions whose page is in the output once the waves up to
\* position n have been collected, and the place of position k among them.
Kept(n) == {k \in Indices : k <= n /\ FetchedWithImage(answers[k])}
PlaceOf(k, n) == Cardinality({j \in Kept(n) : j <= k})
\* The sequence ps is the pages of the positions Kept(n), in discovery order.
InDiscoveryOrder(ps, n) ==
    /\ Len(ps) = Cardinality(Kept(n))
    /\ \A k \in Kept(n) : ps[PlaceOf(k, n)] = PageAnswered(k)

\* C21: the collected result sequence preserves discovery order, whatever the
\* order in which the operations of a wave settle: the pages collected so far,
\* and the pages of the aggregate, are the pages of the discovered positions
\* that yielded one, each at its place in discovery order; so if page p
\* precedes page q in the output, p's URL was discovered at an earlier position.
C21_DiscoveryOrder ==
    /\ (DiscoverySucceeded /\ pc = "scraping") => InDiscoveryOrder(results, i)
    /\ AggregateKnown => InDiscoveryOrder(Aggregate, Len(urls))
    /\ AggregateKnown =>
          \A p, q \in DOMAIN Aggregate :
              p < q => \E j, k \in Indices :
                          /\ j < k
                          /\ urls[j] = Aggregate[p].url
                          /\ urls[k] = Aggregate[q].url

\* Discovery [a, a, b] fetched in two waves of two, the second fetch threw:
\* the 200 response holds the page of position 1, then that of position 3.
C21_Witness ==
    /\ HttpOk
    /\ concurrency = 2
    /\ urls = <<"https://ex.com/a", "https://ex.com/a", "https://ex.com/b">>
    /\ FetchedWithImage(answers[1])
    /\ answers[2].kind = "throw"
    /\ FetchedWithImage(answers[3])
    /\ response.pages = <<PageAnswered(1), PageAnswered(3)>>

====
